---- MODULE Spec2Model ----
(***************************************************************************)
(* gocrud: a CRUD HTTP service for generic items, stored in Redis.         *)
(*                                                                         *)
(* The model follows the request path of the running server: main wires    *)
(* the logging middleware around the mux, the mux routes to the handlers   *)
(* of handlers.go, and the handlers call the RedisStore (the version with  *)
(* type and tag indexes).  Every Redis command is one step of the model:   *)
(* the store uses client.Pipeline(), which sends the queued commands in    *)
(* one round trip but is no MULTI/EXEC transaction, so the server runs     *)
(* the commands of a batch one by one and serves other connections in      *)
(* between.                                                                *)
(***************************************************************************)
EXTENDS Naturals, Sequences, FiniteSets, TLC

(***************************************************************************)
(* Bounds of the model.                                                    *)
(***************************************************************************)
\* uuids that POST /items may hand out in one run
MaxItems == 2
\* requests the concurrent specification serves in one run
MaxReq == 3

IdNames == <<"u1", "u2", "u3", "u4">>
Ids == {IdNames[n] : n \in 1..MaxItems}
Procs == {"r1", "r2"}
Types == {"a", "b"}
Tags == {"x", "y", "z"}
Times == {1, 2}

Nil == [nil |-> TRUE]

(***************************************************************************)
(* Values of the data field: a JSON text as its sequence of tokens, where  *)
(* the token " " is insignificant white space between two tokens.          *)
(***************************************************************************)
DataSpaced == <<"{", "\"k\"", ":", " ", "1", "}">>
DataCompact == <<"{", "\"k\"", ":", "1", "}">>
DataOther == <<"[", "2", "]">>
\* a text that is no JSON value: the object is not closed
DataBroken == <<"{", "\"k\"", ":", "1">>

(***************************************************************************)
(* Request bodies the clients send.  form says how the body as a whole     *)
(* decodes: "ok", a body with a field the request struct does not have     *)
(* ("unknown_field"), or a body with a second JSON value after the first   *)
(* ("trailing").                                                           *)
(***************************************************************************)
BodyForm(ty, tg, d, f) == [type |-> ty, tags |-> tg, data |-> d, form |-> f]
Body(ty, tg, d) == BodyForm(ty, tg, d, "ok")
NoBody == [type |-> "", tags |-> <<>>, data |-> <<>>, form |-> "none"]
GoodBodies ==
    { Body("a", <<"x", "y">>, DataSpaced),
      Body("b", <<"x", "y">>, DataOther),
      Body("a", <<"y", "z">>, DataOther),
      Body("b", <<>>, DataCompact) }
BadBodies ==
    { Body(" ", <<"x">>, DataCompact),
      Body("a", <<"x">>, <<>>),
      Body("a", <<"x">>, DataBroken),
      BodyForm("a", <<"x">>, DataCompact, "unknown_field"),
      BodyForm("a", <<"x">>, DataCompact, "trailing") }
Bodies == GoodBodies \cup BadBodies

(***************************************************************************)
(* Authorization headers: the header is scheme \o cred, where scheme is    *)
(* what stands in the place of the prefix "Bearer ".                       *)
(***************************************************************************)
Header(scheme, cred) == [scheme |-> scheme, cred |-> cred]
APIKeys == {"k1"}
ValidHeader == Header("Bearer ", "k1")
AuthHeaders == {Header("", ""), Header("Basic ", "k1"), Header("Bearer ", "k2"), ValidHeader}

VARIABLES
    strs,     \* Redis string keys: key -> stored JSON text, or Nil
    sets,     \* Redis set keys: key -> set of members
    nextId,   \* uuids handed out so far
    served,   \* requests accepted so far
    pc,       \* where each request is in its handler
    req,      \* the request a handler works on
    item,     \* the handler's / SaveItem's item
    pipe,     \* the commands queued in the pipeline
    pos,      \* how many of them the server has executed
    ids,      \* ListItems: identifiers still to fetch
    got,      \* ListItems: items collected
    resp,     \* the response written
    snap      \* the store as it was when the request was received

vars == <<strs, sets, nextId, served, pc, req, item, pipe, pos, ids, got, resp, snap>>

(***************************************************************************)
(* Store keys.                                                             *)
(***************************************************************************)
AllKey == "items"
ItemKey(id) == "item:" \o id
TypeKey(t) == "items:type:" \o t
\* the key of a tag index, had tags and types shared one prefix
TagKeySharesPrefix(g) == "items:type:" \o g
TagKey(g) == "items:tag:" \o g

ItemKeys == {ItemKey(id) : id \in Ids}
SetKeys == {AllKey} \cup {TypeKey(t) : t \in Types} \cup {TagKey(g) : g \in Tags}

(***************************************************************************)
(* encoding/json.  Marshal writes a RawMessage field through compact, so   *)
(* insignificant white space of data is not stored; the other fields are   *)
(* written and read back field by field.                                   *)
(***************************************************************************)
IsSpace(tok) == tok = " "
Compact(d) == SelectSeq(d, LAMBDA tok : ~IsSpace(tok))

\* Marshal, had the tags field no place in the stored text
MarshalDropsTags(it) ==
    [json |-> [id |-> it.id, type |-> it.type, tags |-> <<>>,
               data |-> Compact(it.data),
               createdAt |-> it.createdAt, lastModified |-> it.lastModified]]

Marshal(it) ==
    [json |-> [id |-> it.id, type |-> it.type, tags |-> it.tags,
               data |-> Compact(it.data),
               createdAt |-> it.createdAt, lastModified |-> it.lastModified]]

Unmarshal(text) ==
    [id |-> text.json.id, type |-> text.json.type, tags |-> text.json.tags,
     data |-> text.json.data,
     createdAt |-> text.json.createdAt, lastModified |-> text.json.lastModified]

(***************************************************************************)
(* Redis commands.                                                         *)
(***************************************************************************)
Cmd(op, key, arg) == [op |-> op, key |-> key, arg |-> arg]

ExecStrs(s, c) ==
    CASE c.op = "SET" -> [s EXCEPT ![c.key] = c.arg]
      [] c.op = "DEL" -> [s EXCEPT ![c.key] = Nil]
      [] OTHER -> s

ExecSets(s, c) ==
    CASE c.op = "SADD" -> [s EXCEPT ![c.key] = @ \cup {c.arg}]
      [] c.op = "SREM" -> [s EXCEPT ![c.key] = @ \ {c.arg}]
      [] OTHER -> s

MapSeq(s, Op(_)) == [i \in 1..Len(s) |-> Op(s[i])]

\* GetItem: the item stored under id, or Nil for ErrNotFound
GetItem(id) ==
    IF strs[ItemKey(id)] = Nil THEN Nil ELSE Unmarshal(strs[ItemKey(id)])

\* SaveItem, had it no clean-up of the old type index
SavePipeKeepsOldType(it, old) ==
    <<Cmd("SET", ItemKey(it.id), Marshal(it)), Cmd("SADD", AllKey, it.id)>>
    \o (IF old # Nil
        THEN MapSeq(old.tags, LAMBDA g : Cmd("SREM", TagKey(g), it.id))
        ELSE <<>>)
    \o <<Cmd("SADD", TypeKey(it.type), it.id)>>
    \o MapSeq(it.tags, LAMBDA g : Cmd("SADD", TagKey(g), it.id))

\* SaveItem, had it no clean-up of the old tag indexes
SavePipeKeepsOldTags(it, old) ==
    <<Cmd("SET", ItemKey(it.id), Marshal(it)), Cmd("SADD", AllKey, it.id)>>
    \o (IF old # Nil /\ old.type # it.type
        THEN <<Cmd("SREM", TypeKey(old.type), it.id)>>
        ELSE <<>>)
    \o <<Cmd("SADD", TypeKey(it.type), it.id)>>
    \o MapSeq(it.tags, LAMBDA g : Cmd("SADD", TagKey(g), it.id))

\* SaveItem: the commands queued into the pipeline
SavePipe(it, old) ==
    <<Cmd("SET", ItemKey(it.id), Marshal(it)), Cmd("SADD", AllKey, it.id)>>
    \o (IF old # Nil
        THEN (IF old.type # it.type
              THEN <<Cmd("SREM", TypeKey(old.type), it.id)>>
              ELSE <<>>)
             \o MapSeq(old.tags, LAMBDA g : Cmd("SREM", TagKey(g), it.id))
        ELSE <<>>)
    \o <<Cmd("SADD", TypeKey(it.type), it.id)>>
    \o MapSeq(it.tags, LAMBDA g : Cmd("SADD", TagKey(g), it.id))

\* DeleteItem, had it left the all-items index alone
DeletePipeKeepsAll(id, it) ==
    <<Cmd("DEL", ItemKey(id), Nil), Cmd("SREM", TypeKey(it.type), id)>>
    \o MapSeq(it.tags, LAMBDA g : Cmd("SREM", TagKey(g), id))

\* DeleteItem, had it left the tag indexes alone
DeletePipeKeepsTags(id, it) ==
    <<Cmd("DEL", ItemKey(id), Nil), Cmd("SREM", AllKey, id),
      Cmd("SREM", TypeKey(it.type), id)>>

\* DeleteItem: the commands queued into the pipeline
DeletePipe(id, it) ==
    <<Cmd("DEL", ItemKey(id), Nil), Cmd("SREM", AllKey, id),
      Cmd("SREM", TypeKey(it.type), id)>>
    \o MapSeq(it.tags, LAMBDA g : Cmd("SREM", TagKey(g), id))


(***************************************************************************)
(* ListItems, as one uninterrupted call.  The handler's steps below read   *)
(* the index and fetch the records with the same operators.                *)
(***************************************************************************)
SMembers(key) == IF key \in DOMAIN sets THEN sets[key] ELSE {}

FilterKeys(typeFilter, tagFilters) ==
    (IF typeFilter # "" THEN <<TypeKey(typeFilter)>> ELSE <<>>)
    \o MapSeq(tagFilters, TagKey)

\* the index read, had it taken the first filter alone
ReadIndexFirstKey(setKeys) ==
    IF Len(setKeys) = 0 THEN SMembers(AllKey) ELSE SMembers(setKeys[1])

ReadIndex(setKeys) ==
    IF Len(setKeys) = 0 THEN SMembers(AllKey)
    ELSE IF Len(setKeys) = 1 THEN SMembers(setKeys[1])
    ELSE {id \in Ids : \A i \in 1..Len(setKeys) : id \in SMembers(setKeys[i])}

\* the loop over the results, had it kept the result of an absent key
CollectKeepsAbsent(results) == results

\* the loop over the results of the GETs: the result of an absent key
\* (redis.Nil) is skipped
Collect(results) == results \ {Nil}

\* the records of the identifiers; an identifier without a record is skipped
FetchAll(idset) ==
    {GetItem(id) : id \in {i \in idset : GetItem(i) # Nil}}

ListItems(typeFilter, tagFilters) ==
    FetchAll(ReadIndex(FilterKeys(typeFilter, tagFilters)))

(***************************************************************************)
(* Requests.  coll: the path is /items; otherwise it is /items/<id>.       *)
(* typeq and tagq are the type and tag parameters of the query.             *)
(***************************************************************************)
Request(m, c, i, b, q, g, h) ==
    [method |-> m, coll |-> c, id |-> i, body |-> b, typeq |-> q, tagq |-> g,
     auth |-> h]

Requests(headers) ==
    {Request("POST", TRUE, "", b, "", <<>>, h) : b \in Bodies, h \in headers}
    \cup {Request("GET", TRUE, "", NoBody, q, <<>>, h) :
            q \in Types \cup {""}, h \in headers}
    \cup {Request("GET", TRUE, "", NoBody, "a", <<"z">>, h) : h \in headers}
    \cup {Request("PUT", FALSE, i, b, "", <<>>, h) :
            i \in Ids, b \in Bodies, h \in headers}
    \cup {Request(m, FALSE, i, NoBody, "", <<>>, h) :
            m \in {"GET", "DELETE"}, i \in Ids, h \in headers}
    \cup {Request("DELETE", TRUE, "", NoBody, "", <<>>, h) : h \in headers}

Response(status) == [status |-> status, body |-> Nil, challenge |-> ""]
ResponseWith(status, body) == [status |-> status, body |-> body, challenge |-> ""]
\* the JSON array the encoder writes for a slice that is not nil
Array(items) == [array |-> items]

TrimSpace(s) == IF s = " " THEN "" ELSE s

\* authMiddleware: the 401 response it writes, or Nil when it calls next
authMiddleware(validKeys, authHeader) ==
    IF authHeader.scheme # "Bearer "
    THEN [status |-> 401, body |-> Nil, challenge |-> "Bearer realm=\"gocrud\""]
    ELSE IF TrimSpace(authHeader.cred) \notin validKeys
    THEN [status |-> 401, body |-> Nil,
          challenge |-> "Bearer realm=\"gocrud\", error=\"invalid_token\""]
    ELSE Nil

\* main: the middlewares wrapped around the mux
Middleware == {"logging"}

\* the scanner of encoding/json on a text: an object or an array is closed
\* by its own bracket, any other value is one token
ValidJSON(d) ==
    LET text == Compact(d)
    IN  /\ Len(text) > 0
        /\ CASE text[1] = "{" -> text[Len(text)] = "}"
              [] text[1] = "[" -> text[Len(text)] = "]"
              [] OTHER -> Len(text) = 1

\* ValidBody without the check of the type
ValidBodyAnyType(b) ==
    /\ b.form = "ok"
    /\ Len(b.data) = 0 \/ ValidJSON(b.data)
    /\ Len(b.data) # 0
    /\ ValidJSON(b.data)

\* the checks of handleCreateItem and handleUpdateItem on the body, in their
\* order: the decoder (unknown fields refused, the body a JSON text, which
\* makes data a JSON text or absent), ensureSingleJSON, the type and data
\* present, and json.Unmarshal of data
ValidBody(b) ==
    /\ b.form = "ok"
    /\ Len(b.data) = 0 \/ ValidJSON(b.data)
    /\ TrimSpace(b.type) # ""
    /\ Len(b.data) # 0
    /\ ValidJSON(b.data)

\* mux, itemsHandler and itemHandler: the handler a request is routed to
Route(r) ==
    IF r.coll
    THEN CASE r.method = "GET" -> "handleListItems"
           [] r.method = "POST" -> "handleCreateItem"
           [] OTHER -> "405"
    ELSE IF r.id = "" THEN "400"
    ELSE CASE r.method = "GET" -> "handleGetItem"
           [] r.method = "PUT" -> "handleUpdateItem"
           [] r.method = "DELETE" -> "handleDeleteItem"
           [] OTHER -> "405"

AllIdle == \A p \in Procs : pc[p] = "idle"
Quiescent == \A p \in Procs : pc[p] \in {"idle", "done"}

locals == <<item, pipe, pos, ids, got>>
store == <<strs, sets>>

Finish(p, r) ==
    /\ pc' = [pc EXCEPT ![p] = "done"]
    /\ resp' = [resp EXCEPT ![p] = r]

Init ==
    /\ strs = [k \in ItemKeys |-> Nil]
    /\ sets = [k \in SetKeys |-> {}]
    /\ nextId = 0
    /\ served = 0
    /\ pc = [p \in Procs |-> "idle"]
    /\ req = [p \in Procs |-> Nil]
    /\ item = [p \in Procs |-> Nil]
    /\ pipe = [p \in Procs |-> <<>>]
    /\ pos = [p \in Procs |-> 0]
    /\ ids = [p \in Procs |-> {}]
    /\ got = [p \in Procs |-> {}]
    /\ resp = [p \in Procs |-> Nil]
    /\ snap = <<>>

(***************************************************************************)
(* The server takes request r: main's handler chain is the logging         *)
(* middleware around the mux, so the request goes to its handler whatever  *)
(* its Authorization header.                                               *)
(***************************************************************************)
ServeHTTP(p, r) ==
    /\ pc[p] = "idle"
    /\ req' = [req EXCEPT ![p] = r]
    /\ IF "auth" \in Middleware /\ authMiddleware(APIKeys, r.auth) # Nil
       THEN Finish(p, authMiddleware(APIKeys, r.auth))
       ELSE IF Route(r) \in {"400", "405"}
       THEN Finish(p, Response(IF Route(r) = "400" THEN 400 ELSE 405))
       ELSE /\ pc' = [pc EXCEPT ![p] = Route(r)]
            /\ UNCHANGED resp
    /\ UNCHANGED <<store, nextId, locals>>

\* handleCreateItem up to its call of SaveItem
handleCreateItem(p) ==
    /\ pc[p] = "handleCreateItem"
    /\ IF ~ValidBody(req[p].body)
       THEN /\ Finish(p, Response(400))
            /\ UNCHANGED <<nextId, item>>
       ELSE /\ nextId < MaxItems
            /\ \E now \in Times :
                 item' = [item EXCEPT ![p] =
                            [id |-> IdNames[nextId + 1],
                             type |-> req[p].body.type,
                             tags |-> req[p].body.tags,
                             data |-> req[p].body.data,
                             createdAt |-> now, lastModified |-> now]]
            /\ nextId' = nextId + 1
            /\ pc' = [pc EXCEPT ![p] = "SaveItem"]
            /\ UNCHANGED resp
    /\ UNCHANGED <<store, served, req, pipe, pos, ids, got, snap>>

\* handleUpdateItem, had it stamped the item as created at the update
handleUpdateItemNewCreatedAt(p) ==
    /\ pc[p] = "handleUpdateItem"
    /\ IF ~ValidBody(req[p].body)
       THEN /\ Finish(p, Response(400))
            /\ UNCHANGED item
       ELSE IF GetItem(req[p].id) = Nil
       THEN /\ Finish(p, Response(404))
            /\ UNCHANGED item
       ELSE /\ \E now \in Times :
                 item' = [item EXCEPT ![p] =
                            [GetItem(req[p].id) EXCEPT
                               !.type = req[p].body.type,
                               !.tags = req[p].body.tags,
                               !.data = req[p].body.data,
                               !.createdAt = now,
                               !.lastModified = now]]
            /\ pc' = [pc EXCEPT ![p] = "SaveItem"]
            /\ UNCHANGED resp
    /\ UNCHANGED <<store, nextId, served, req, pipe, pos, ids, got, snap>>

\* handleUpdateItem, had it saved the item under an identifier without record
handleUpdateItemUpsert(p) ==
    /\ pc[p] = "handleUpdateItem"
    /\ IF ~ValidBody(req[p].body)
       THEN /\ Finish(p, Response(400))
            /\ UNCHANGED item
       ELSE /\ \E now \in Times :
                 item' = [item EXCEPT ![p] =
                            [id |-> req[p].id,
                             type |-> req[p].body.type,
                             tags |-> req[p].body.tags,
                             data |-> req[p].body.data,
                             createdAt |-> IF GetItem(req[p].id) = Nil THEN now
                                           ELSE GetItem(req[p].id).createdAt,
                             lastModified |-> now]]
            /\ pc' = [pc EXCEPT ![p] = "SaveItem"]
            /\ UNCHANGED resp
    /\ UNCHANGED <<store, nextId, served, req, pipe, pos, ids, got, snap>>

\* handleUpdateItem up to its call of SaveItem
handleUpdateItem(p) ==
    /\ pc[p] = "handleUpdateItem"
    /\ IF ~ValidBody(req[p].body)
       THEN /\ Finish(p, Response(400))
            /\ UNCHANGED item
       ELSE IF GetItem(req[p].id) = Nil
       THEN /\ Finish(p, Response(404))
            /\ UNCHANGED item
       ELSE /\ \E now \in Times :
                 item' = [item EXCEPT ![p] =
                            [GetItem(req[p].id) EXCEPT
                               !.type = req[p].body.type,
                               !.tags = req[p].body.tags,
                               !.data = req[p].body.data,
                               !.lastModified = now]]
            /\ pc' = [pc EXCEPT ![p] = "SaveItem"]
            /\ UNCHANGED resp
    /\ UNCHANGED <<store, nextId, served, req, pipe, pos, ids, got, snap>>

\* SaveItem up to pipe.Exec: the previous version is read, the batch queued
SaveItem(p) ==
    /\ pc[p] = "SaveItem"
    /\ pipe' = [pipe EXCEPT ![p] = SavePipe(item[p], GetItem(item[p].id))]
    /\ pos' = [pos EXCEPT ![p] = 0]
    /\ pc' = [pc EXCEPT ![p] = "Exec"]
    /\ UNCHANGED <<store, nextId, served, req, item, ids, got, resp, snap>>

\* handleDeleteItem, had the delete of a missing item been a success
handleDeleteItemNoop(p) ==
    /\ pc[p] = "handleDeleteItem"
    /\ IF GetItem(req[p].id) = Nil
       THEN /\ Finish(p, Response(204))
            /\ UNCHANGED <<item, pipe, pos>>
       ELSE /\ item' = [item EXCEPT ![p] = GetItem(req[p].id)]
            /\ pipe' = [pipe EXCEPT ![p] = DeletePipe(req[p].id, GetItem(req[p].id))]
            /\ pos' = [pos EXCEPT ![p] = 0]
            /\ pc' = [pc EXCEPT ![p] = "Exec"]
            /\ UNCHANGED resp
    /\ UNCHANGED <<store, nextId, served, req, ids, got, snap>>

\* handleDeleteItem and DeleteItem up to pipe.Exec
handleDeleteItem(p) ==
    /\ pc[p] = "handleDeleteItem"
    /\ IF GetItem(req[p].id) = Nil
       THEN /\ Finish(p, Response(404))
            /\ UNCHANGED <<item, pipe, pos>>
       ELSE /\ item' = [item EXCEPT ![p] = GetItem(req[p].id)]
            /\ pipe' = [pipe EXCEPT ![p] = DeletePipe(req[p].id, GetItem(req[p].id))]
            /\ pos' = [pos EXCEPT ![p] = 0]
            /\ pc' = [pc EXCEPT ![p] = "Exec"]
            /\ UNCHANGED resp
    /\ UNCHANGED <<store, nextId, served, req, ids, got, snap>>

\* the server executes the next command of the pipeline
Exec(p) ==
    /\ pc[p] = "Exec"
    /\ pos[p] < Len(pipe[p])
    /\ strs' = ExecStrs(strs, pipe[p][pos[p] + 1])
    /\ sets' = ExecSets(sets, pipe[p][pos[p] + 1])
    /\ pos' = [pos EXCEPT ![p] = @ + 1]
    /\ UNCHANGED <<nextId, served, pc, req, item, pipe, ids, got, resp, snap>>

\* pipe.Exec returns without error and the handler writes its response
ExecReturn(p) ==
    /\ pc[p] = "Exec"
    /\ pos[p] = Len(pipe[p])
    /\ Finish(p, CASE req[p].method = "POST" -> ResponseWith(201, item[p])
                   [] req[p].method = "PUT" -> ResponseWith(200, item[p])
                   [] OTHER -> Response(204))
    /\ UNCHANGED <<store, nextId, served, req, locals, snap>>

\* handleGetItem
handleGetItem(p) ==
    /\ pc[p] = "handleGetItem"
    /\ IF GetItem(req[p].id) = Nil
       THEN Finish(p, Response(404))
       ELSE Finish(p, ResponseWith(200, GetItem(req[p].id)))
    /\ UNCHANGED <<store, nextId, served, req, locals, snap>>

\* handleListItems and ListItems up to the fetch: the handler passes the
\* type parameter of the query and no tag
handleListItems(p) ==
    /\ pc[p] = "handleListItems"
    /\ LET found == ReadIndex(FilterKeys(req[p].typeq, <<>>))
       IN IF found = {}
          THEN /\ Finish(p, ResponseWith(200, Array({})))
               /\ UNCHANGED <<ids, got>>
          ELSE /\ ids' = [ids EXCEPT ![p] = found]
               /\ got' = [got EXCEPT ![p] = {}]
               /\ pc' = [pc EXCEPT ![p] = "Fetch"]
               /\ UNCHANGED resp
    /\ UNCHANGED <<store, nextId, served, req, item, pipe, pos, snap>>

\* Fetch, had it removed from the index of all items an identifier whose
\* record it finds absent
FetchCleansIndex(p) ==
    /\ pc[p] = "Fetch"
    /\ \E id \in ids[p] :
         /\ ids' = [ids EXCEPT ![p] = @ \ {id}]
         /\ got' = [got EXCEPT ![p] = @ \cup {GetItem(id)}]
         /\ sets' = IF GetItem(id) = Nil
                    THEN [sets EXCEPT ![AllKey] = @ \ {id}]
                    ELSE sets
    /\ UNCHANGED <<strs, nextId, served, pc, req, item, pipe, pos, resp, snap>>

\* ListItems: the server executes one GET of the fetch pipeline; got holds
\* the results of the GETs, Nil being the result of an absent key
Fetch(p) ==
    /\ pc[p] = "Fetch"
    /\ \E id \in ids[p] :
         /\ ids' = [ids EXCEPT ![p] = @ \ {id}]
         /\ got' = [got EXCEPT ![p] = @ \cup {GetItem(id)}]
    /\ UNCHANGED <<store, nextId, served, pc, req, item, pipe, pos, resp, snap>>

\* ListItems, had it collected the items in a slice that is nil until the
\* first append
FetchReturnNil(p) ==
    /\ pc[p] = "Fetch"
    /\ ids[p] = {}
    /\ Finish(p, ResponseWith(200, IF Collect(got[p]) = {} THEN [null |-> TRUE]
                                   ELSE Array(Collect(got[p]))))
    /\ UNCHANGED <<store, nextId, served, req, locals, snap>>

\* ListItems returns the collected items
FetchReturn(p) ==
    /\ pc[p] = "Fetch"
    /\ ids[p] = {}
    /\ Finish(p, ResponseWith(200, Array(Collect(got[p]))))
    /\ UNCHANGED <<store, nextId, served, req, locals, snap>>

\* the response is sent; the goroutine ends
Reply(p) ==
    /\ pc[p] = "done"
    /\ pc' = [pc EXCEPT ![p] = "idle"]
    /\ req' = [req EXCEPT ![p] = Nil]
    /\ item' = [item EXCEPT ![p] = Nil]
    /\ pipe' = [pipe EXCEPT ![p] = <<>>]
    /\ pos' = [pos EXCEPT ![p] = 0]
    /\ ids' = [ids EXCEPT ![p] = {}]
    /\ got' = [got EXCEPT ![p] = {}]
    /\ resp' = [resp EXCEPT ![p] = Nil]
    /\ snap' = <<>>
    /\ UNCHANGED <<store, nextId, served>>

\* the handlers, had they written the error of the store into the response
StoreErrorLeaks(p) ==
    /\ pc[p] \in {"handleUpdateItem", "SaveItem", "handleDeleteItem", "Exec",
                  "handleGetItem", "handleListItems", "Fetch"}
    /\ pc[p] = "handleUpdateItem" => ValidBody(req[p].body)
    /\ Finish(p, ResponseWith(500, [text |-> "redis: connection refused"]))
    /\ UNCHANGED <<store, nextId, served, req, locals, snap>>

\* a store call fails: GetItem, pipe.Exec or the index read returns an error;
\* the handler logs it and answers 500 with the text of the status
StoreError(p) ==
    /\ pc[p] \in {"handleUpdateItem", "SaveItem", "handleDeleteItem", "Exec",
                  "handleGetItem", "handleListItems", "Fetch"}
    /\ pc[p] = "handleUpdateItem" => ValidBody(req[p].body)
    /\ Finish(p, Response(500))
    /\ UNCHANGED <<store, nextId, served, req, locals, snap>>

Step(p) ==
    \/ handleCreateItem(p)
    \/ handleUpdateItem(p)
    \/ SaveItem(p)
    \/ handleDeleteItem(p)
    \/ Exec(p)
    \/ ExecReturn(p)
    \/ handleGetItem(p)
    \/ handleListItems(p)
    \/ Fetch(p)
    \/ FetchReturn(p)
    \/ Reply(p)

(***************************************************************************)
(* SpecSeq: requests of authorized clients, served one after the other,    *)
(* with a store that answers every command.  With one request at a time    *)
(* it does not matter which goroutine serves it: r1 serves them all.       *)
(***************************************************************************)
ReceiveSeq(p) ==
    /\ AllIdle
    /\ p = "r1"
    /\ \E r \in Requests({ValidHeader}) : ServeHTTP(p, r)
    /\ UNCHANGED <<served, snap>>

NextSeq == \E p \in Procs : ReceiveSeq(p) \/ Step(p)

SpecSeq == Init /\ [][NextSeq]_vars

(***************************************************************************)
(* SpecFault: requests of any client, served one after the other, with a   *)
(* store whose calls may fail; the run serves MaxReq requests.  snap keeps  *)
(* the store as it was when the request came in.                           *)
(***************************************************************************)
ReceiveAny(p) ==
    /\ AllIdle
    /\ p = "r1"
    /\ served < MaxReq
    /\ \E r \in Requests(AuthHeaders) : ServeHTTP(p, r)
    /\ snap' = <<strs, sets>>
    /\ served' = served + 1

NextFault == \E p \in Procs : ReceiveAny(p) \/ Step(p) \/ StoreError(p)

SpecFault == Init /\ [][NextFault]_vars

(***************************************************************************)
(* Spec: requests of authorized clients served concurrently, each by its   *)
(* own goroutine; the run serves MaxReq requests.                          *)
(***************************************************************************)
Receive(p) ==
    /\ served < MaxReq
    /\ \E r \in Requests({ValidHeader}) : ServeHTTP(p, r)
    /\ served' = served + 1
    /\ UNCHANGED snap

Next == \E p \in Procs : Receive(p) \/ Step(p)

Spec == Init /\ [][Next]_vars

(***************************************************************************)
(* What the claims speak of.                                               *)
(***************************************************************************)
Stored(id) == strs[ItemKey(id)] # Nil
TagSet(it) == {it.tags[i] : i \in 1..Len(it.tags)}
Completed(p, method, status) ==
    /\ pc[p] = "done"
    /\ ~req[p].coll \/ method = "POST"
    /\ req[p].method = method
    /\ resp[p].status = status
Queued(p, op, key) ==
    \E i \in 1..Len(pipe[p]) : pipe[p][i].op = op /\ pipe[p][i].key = key

TypeFilters == Types \cup {"", "c"}
TagFilters == {<<>>, <<"x">>, <<"z">>, <<"x", "y">>, <<"y", "z">>, <<"x", "z">>}

\* the stored items of type typeFilter (if given) that carry every tag of tagFilters
Matching(typeFilter, tagFilters) ==
    {GetItem(id) : id \in
        {i \in Ids : /\ Stored(i)
                     /\ typeFilter = "" \/ GetItem(i).type = typeFilter
                     /\ \A k \in 1..Len(tagFilters) : tagFilters[k] \in TagSet(GetItem(i))}}

(***************************************************************************)
(* C1: when no request is being served, the index of every type T holds    *)
(* exactly the identifiers of the stored items whose type is T (requests   *)
(* served one after the other, every store call answering).                *)
(***************************************************************************)
C1_TypeIndexExact ==
    Quiescent =>
        \A t \in Types :
            sets[TypeKey(t)] = {id \in Ids : Stored(id) /\ GetItem(id).type = t}

\* an update has moved an item from type a to type b
C1_Witness ==
    \E p \in Procs :
        /\ Completed(p, "PUT", 200)
        /\ Queued(p, "SREM", TypeKey("a"))
        /\ item[p].type = "b"
        /\ item[p].id \in sets[TypeKey("b")]
        /\ item[p].id \notin sets[TypeKey("a")]

(***************************************************************************)
(* C2: when no request is being served, the index of every tag G holds     *)
(* exactly the identifiers of the stored items whose tags include G.       *)
(***************************************************************************)
C2_TagIndexExact ==
    Quiescent =>
        \A g \in Tags :
            sets[TagKey(g)] = {id \in Ids : Stored(id) /\ g \in TagSet(GetItem(id))}

\* an update has changed the tags of an item from x,y to y,z
C2_Witness ==
    \E p \in Procs :
        /\ Completed(p, "PUT", 200)
        /\ Queued(p, "SREM", TagKey("x"))
        /\ Queued(p, "SREM", TagKey("y"))
        /\ item[p].tags = <<"y", "z">>
        /\ item[p].id \in sets[TagKey("y")]
        /\ item[p].id \in sets[TagKey("z")]
        /\ item[p].id \notin sets[TagKey("x")]

(***************************************************************************)
(* C3: when no request is being served, the all-items index is exactly     *)
(* the set of identifiers that have a stored record.                       *)
(***************************************************************************)
C3_AllIndexExact ==
    Quiescent => sets[AllKey] = {id \in Ids : Stored(id)}

\* two items were created, and the last of them has just been deleted
C3_Witness ==
    /\ nextId >= 2
    /\ \E p \in Procs : Completed(p, "DELETE", 204)
    /\ \A id \in Ids : ~Stored(id)
    /\ sets[AllKey] = {}

(***************************************************************************)
(* C4: after a successful delete of id (requests served one after the      *)
(* other) the record of id is gone and no index holds id.                  *)
(***************************************************************************)
C4_DeleteLeavesNoReference ==
    \A p \in Procs :
        Completed(p, "DELETE", 204) =>
            /\ GetItem(req[p].id) = Nil
            /\ \A k \in SetKeys : req[p].id \notin sets[k]

\* the deleted item had tags and had been updated after its creation
C4_Witness ==
    \E p \in Procs :
        /\ Completed(p, "DELETE", 204)
        /\ item[p].lastModified # item[p].createdAt
        /\ Len(item[p].tags) > 0
        /\ \E id \in Ids : Stored(id)

(***************************************************************************)
(* C5: a list returns exactly the stored items that match every filter     *)
(* given: whenever no request is being served, ListItems called with any   *)
(* type filter and tag filters does, and so does the response of a         *)
(* completed GET /items that has no tag parameter.                         *)
(***************************************************************************)
C5_ListExact ==
    Quiescent =>
        /\ \A tf \in TypeFilters, tg \in TagFilters :
               ListItems(tf, tg) = Matching(tf, tg)
        /\ \A p \in Procs :
               (/\ pc[p] = "done"
                /\ Route(req[p]) = "handleListItems"
                /\ req[p].tagq = <<>>
                /\ resp[p].status = 200)
                   => resp[p].body = Array(Matching(req[p].typeq, <<>>))

\* two stored items carry tag x, one of type a and one of type b: type=a,
\* tag=x yields the first alone, and a tag neither carries yields nothing
C5_Witness ==
    /\ Quiescent
    /\ \E i, j \in Ids :
         /\ Stored(i) /\ Stored(j)
         /\ GetItem(i).type = "a" /\ GetItem(i).tags = <<"x", "y">>
         /\ GetItem(j).type = "b" /\ GetItem(j).tags = <<"x", "y">>
         /\ ListItems("a", <<"x">>) = {GetItem(i)}
         /\ ListItems("", <<"x", "y">>) = {GetItem(i), GetItem(j)}
         /\ ListItems("a", <<"z">>) = {}

(***************************************************************************)
(* C6: deleting an identifier that has no stored record answers 404 and    *)
(* changes neither the records nor any index.                              *)
(***************************************************************************)
C6_DeleteMissingIsNotFound ==
    [][\A p \in Procs :
          (pc[p] = "handleDeleteItem" /\ GetItem(req[p].id) = Nil /\ pc'[p] # pc[p])
              => (pc'[p] = "done" /\ resp'[p].status = 404 /\ strs' = strs /\ sets' = sets)]_vars

\* a delete of an identifier without a record has been answered, while the store holds an item
C6_Witness ==
    \E p \in Procs :
        /\ Completed(p, "DELETE", 404)
        /\ ~Stored(req[p].id)
        /\ sets[AllKey] # {}

MidBatch(p) == pc[p] = "Exec" /\ 0 < pos[p] /\ pos[p] < Len(pipe[p])

StoreCommand(q) ==
    \/ pc[q] \in {"SaveItem", "handleDeleteItem", "handleGetItem", "handleListItems"}
          /\ pc'[q] # pc[q]
    \/ pc[q] = "handleUpdateItem" /\ ValidBody(req[q].body) /\ pc'[q] # pc[q]
    \/ pc[q] = "Exec" /\ pos'[q] # pos[q]
    \/ pc[q] = "Fetch" /\ ids'[q] # ids[q]

C8_BatchAtomic ==
    [][\A p, q \in Procs : (p # q /\ MidBatch(p)) => ~StoreCommand(q)]_vars

(***************************************************************************)
(* C9 as stated: when the execution of the batch of a save or delete       *)
(* fails, the store is as it was before the operation.                     *)
(***************************************************************************)
C9_FailedBatchLeavesStore ==
    \A p \in Procs :
        (pc[p] = "done" /\ resp[p].status = 500 /\ Len(pipe[p]) > 0)
            => <<strs, sets>> = snap

(***************************************************************************)
(* C10 as stated: a request to a mutating endpoint whose Authorization     *)
(* header authMiddleware rejects is answered 401 with the challenge        *)
(* header, reaches no handler and leaves the store unchanged.              *)
(***************************************************************************)
Mutating(r) == r.method \in {"POST", "PUT", "DELETE"}

C10_UnauthorizedRejected ==
    \A p \in Procs :
        (pc[p] # "idle" /\ Mutating(req[p]) /\ authMiddleware(APIKeys, req[p].auth) # Nil)
            => /\ pc[p] = "done"
               /\ resp[p] = authMiddleware(APIKeys, req[p].auth)
               /\ <<strs, sets>> = snap

(***************************************************************************)
(* C11 as stated: GET /items with a type parameter and tag parameters is   *)
(* answered 200 with exactly the stored records that have the type and     *)
(* carry every given tag.                                                  *)
(***************************************************************************)
C11_ListByTypeAndTags ==
    \A p \in Procs :
        (/\ pc[p] = "done"
         /\ Route(req[p]) = "handleListItems"
         /\ req[p].typeq # ""
         /\ Len(req[p].tagq) > 0)
            => /\ resp[p].status = 200
               /\ resp[p].body = Array(Matching(req[p].typeq, req[p].tagq))

(***************************************************************************)
(* The steps of an update.  UpdateFrame: no step changes the id or the     *)
(* createdAt of a record that stays stored, and no step of a PUT changes   *)
(* the record of another identifier.  UpdateDone: the PUT is answered 200. *)
(***************************************************************************)
UpdateFrame ==
    /\ \A id \in Ids :
          (Stored(id) /\ Stored(id)')
              => /\ GetItem(id)'.id = GetItem(id).id
                 /\ GetItem(id)'.createdAt = GetItem(id).createdAt
    /\ \A p \in Procs :
          (pc[p] # "idle" /\ Route(req[p]) = "handleUpdateItem")
              => \A id \in Ids \ {req[p].id} :
                     strs'[ItemKey(id)] = strs[ItemKey(id)]

UpdateDone(p) ==
    /\ pc[p] = "Exec"
    /\ req[p].method = "PUT"
    /\ pc'[p] = "done"
    /\ resp'[p].status = 200

MissingStep(p, handler) ==
    /\ pc[p] = handler
    /\ GetItem(req[p].id) = Nil
    /\ pc'[p] # pc[p]

(***************************************************************************)
(* C13 as stated: PUT and GET /items/{id} for an identifier without record *)
(* are answered 404, and no record or index entry is written.              *)
(***************************************************************************)
C13_MissingIsNotFound ==
    [][\A p \in Procs :
          (MissingStep(p, "handleUpdateItem") \/ MissingStep(p, "handleGetItem"))
              => /\ pc'[p] = "done"
                 /\ resp'[p].status = 404
                 /\ strs' = strs /\ sets' = sets]_vars

(***************************************************************************)
(* C13 as amended: GET /items/{id} for an identifier without record is     *)
(* answered 404; PUT for such an identifier is answered 404 when its body  *)
(* passes the validation and 400 when it does not; neither writes a record *)
(* or an index entry.                                                      *)
(***************************************************************************)
C13_MissingIsNotFoundValid ==
    [][\A p \in Procs :
          /\ MissingStep(p, "handleGetItem")
                => /\ pc'[p] = "done"
                   /\ resp'[p].status = 404
                   /\ strs' = strs /\ sets' = sets
          /\ MissingStep(p, "handleUpdateItem")
                => /\ pc'[p] = "done"
                   /\ resp'[p].status = IF ValidBody(req[p].body) THEN 404 ELSE 400
                   /\ strs' = strs /\ sets' = sets]_vars

\* a PUT with a valid body for an identifier whose record was deleted
C13_Witness ==
    \E p \in Procs :
        /\ Completed(p, "PUT", 404)
        /\ ValidBody(req[p].body)
        /\ req[p].id \in Ids
        /\ ~Stored(req[p].id)
        /\ \A k \in SetKeys : req[p].id \notin sets[k]
        /\ \E id \in Ids : Stored(id)

(***************************************************************************)
(* C14: a list with any filters, also one that runs while other requests   *)
(* delete, is answered 200 with an array (never null), and with the empty  *)
(* array when no identifier was read from the index or no identifier read  *)
(* had a record when it was fetched.                                       *)
(***************************************************************************)
C14_EmptyListNotNull ==
    \A p \in Procs :
        (pc[p] = "done" /\ Route(req[p]) = "handleListItems")
            => /\ resp[p].status = 200
               /\ \E items \in SUBSET Collect(got[p]) : resp[p].body = Array(items)
               /\ got[p] \subseteq {Nil} => resp[p].body = Array({})

\* the one identifier read from the index had no record left at its fetch
C14_Witness ==
    \E p \in Procs :
        /\ pc[p] = "done"
        /\ Route(req[p]) = "handleListItems"
        /\ got[p] = {Nil}
        /\ resp[p] = ResponseWith(200, Array({}))

(***************************************************************************)
(* C15: a POST or PUT whose body has a blank type, no data, data that is   *)
(* no JSON text, an unknown field or a second JSON value is answered 400   *)
(* and changes neither the records nor the indexes; every stored record    *)
(* has a type that is not blank and data that is a JSON text.              *)
(***************************************************************************)
C15_InvalidBodyRejected ==
    [][/\ \A p \in Procs :
             (/\ pc[p] \in {"handleCreateItem", "handleUpdateItem"}
              /\ req[p].body \in BadBodies
              /\ pc'[p] # pc[p])
                 => /\ pc'[p] = "done"
                    /\ resp'[p].status = 400
                    /\ strs' = strs /\ sets' = sets
       /\ \A id \in Ids :
             Stored(id)' => /\ GetItem(id)'.type \notin {"", " "}
                            /\ GetItem(id)'.data \in {DataCompact, DataOther}]_vars

\* a PUT with data that is no JSON text, for an identifier with a record
C15_Witness ==
    \E p \in Procs :
        /\ Completed(p, "PUT", 400)
        /\ req[p].body.data = DataBroken
        /\ Stored(req[p].id)
        /\ GetItem(req[p].id).data \in {DataCompact, DataOther}

(***************************************************************************)
(* C16: a request whose store call fails is answered 500 with the generic  *)
(* body, a request for an identifier without record is answered 404 unless *)
(* the store call itself fails, and a request that has its response runs   *)
(* no further store command: it only ends.                                 *)
(***************************************************************************)
NotFoundHandlers == {"handleGetItem", "handleUpdateItem", "handleDeleteItem"}

C16_StoreFailureIs500 ==
    [][\A p \in Procs :
          /\ (pc[p] # "done" /\ pc'[p] = "done" /\ resp'[p].status = 500)
                => /\ resp'[p].body = Nil
                   /\ strs' = strs /\ sets' = sets
          /\ (pc[p] # "done" /\ pc'[p] = "done" /\ resp'[p].status = 404)
                => pc[p] \in NotFoundHandlers /\ GetItem(req[p].id) = Nil
          /\ (/\ pc[p] \in NotFoundHandlers
              /\ GetItem(req[p].id) = Nil
              /\ pc[p] = "handleUpdateItem" => ValidBody(req[p].body)
              /\ pc'[p] # pc[p])
                => pc'[p] = "done" /\ resp'[p].status \in {404, 500}
          /\ pc[p] = "done"
                => /\ pc'[p] \in {"done", "idle"}
                   /\ resp'[p] \in {resp[p], Nil}
                   /\ strs' = strs /\ sets' = sets]_vars

\* the batch of a save failed after some of its commands
C16_Witness ==
    \E p \in Procs :
        /\ pc[p] = "done"
        /\ resp[p] = Response(500)
        /\ req[p].method = "PUT"
        /\ 0 < pos[p] /\ pos[p] < Len(pipe[p])

(***************************************************************************)
(* C17 as stated: when two saves of one identifier run concurrently, the   *)
(* record stored once both batches are executed is the record of the save  *)
(* whose batch was executed last.  SaveOf: q is in or past the batch of a  *)
(* save of id.  LastOfBatch: p executes the last command of its batch.     *)
(***************************************************************************)
SaveOf(q, id) ==
    /\ pc[q] \in {"Exec", "done"}
    /\ req[q].method \in {"POST", "PUT"}
    /\ Len(pipe[q]) > 0
    /\ item[q].id = id

LastOfBatch(p) ==
    /\ pc[p] = "Exec"
    /\ pos[p] < Len(pipe[p])
    /\ pos'[p] = Len(pipe[p])

C17_LastWriterWins ==
    [][\A p, q \in Procs :
          (/\ p # q
           /\ LastOfBatch(p)
           /\ SaveOf(p, item[p].id)
           /\ SaveOf(q, item[p].id)
           /\ pos[q] = Len(pipe[q]))
              => GetItem(item[p].id)' = [item[p] EXCEPT !.data = Compact(@)]]_vars

(***************************************************************************)
(* C18: a list that runs while other requests delete is answered 200;      *)
(* every result of its fetch is the record its identifier had at the       *)
(* moment of the fetch, or the absence of a record, and the response holds *)
(* the records fetched and no absent entry.                                *)
(***************************************************************************)
C18_ListSkipsDeleted ==
    [][\A p \in Procs :
          /\ pc[p] = "Fetch"
                => \A r \in got'[p] \ got[p] :
                       \/ r = Nil
                       \/ /\ r.id \in ids[p] \ ids'[p]
                          /\ Stored(r.id)
                          /\ r = GetItem(r.id)
          /\ (pc[p] = "Fetch" /\ pc'[p] = "done")
                => /\ resp'[p].status = 200
                   /\ Nil \notin resp'[p].body.array
                   /\ resp'[p].body = Array(got[p] \ {Nil})]_vars

\* a list found the record of an identifier of the index gone, next to a
\* DELETE that is in or past its batch
C18_Witness ==
    \E p, q \in Procs :
        /\ pc[p] = "done"
        /\ Route(req[p]) = "handleListItems"
        /\ Nil \in got[p]
        /\ resp[p].status = 200
        /\ pc[q] \in {"Exec", "done"}
        /\ req[q].method = "DELETE"
        /\ Len(pipe[q]) > 0

(***************************************************************************)
(* C19: while a GET /items/{id} or a GET /items is served, whether it      *)
(* succeeds, finds no record or fails, the records and the indexes are as  *)
(* they were when the request came in.                                     *)
(***************************************************************************)
C19_ReadsLeaveStore ==
    \A p \in Procs :
        (pc[p] # "idle" /\ Route(req[p]) \in {"handleGetItem", "handleListItems"})
            => <<strs, sets>> = snap

\* a list failed after it had fetched a record
C19_Witness ==
    \E p \in Procs :
        /\ pc[p] = "done"
        /\ Route(req[p]) = "handleListItems"
        /\ resp[p].status = 500
        /\ got[p] # {}
        /\ snap = <<strs, sets>>

(***************************************************************************)
(* C20 as stated: once two concurrent saves of one identifier have both    *)
(* completed, the identifier is in the index of a type exactly when the    *)
(* stored record has that type, and in the index of a tag exactly when the *)
(* stored record carries that tag.                                         *)
(***************************************************************************)
C20_IndexFollowsRecord ==
    \A p, q \in Procs :
        (/\ p # q
         /\ Completed(p, "PUT", 200)
         /\ Completed(q, "PUT", 200)
         /\ req[p].id = req[q].id)
            => /\ Stored(req[p].id)
               /\ \A t \in Types :
                     req[p].id \in sets[TypeKey(t)] <=> GetItem(req[p].id).type = t
               /\ \A g \in Tags :
                     req[p].id \in sets[TagKey(g)] <=> g \in TagSet(GetItem(req[p].id))

(***************************************************************************)
(* IndexesOf: the indexes that hold id.  IndexesOfRecord: the indexes the  *)
(* stored record of id belongs in.                                         *)
(***************************************************************************)
IndexesOf(id) == {k \in SetKeys : id \in sets[k]}

IndexesOfRecord(id) ==
    {AllKey, TypeKey(GetItem(id).type)}
        \cup {TagKey(g) : g \in TagSet(GetItem(id))}

(***************************************************************************)
(* C21 as stated: once a DELETE answered 204 and a concurrent PUT of the   *)
(* same identifier answered 200 have both completed, the PUT setting a     *)
(* type or tags other than those of the record the DELETE read, either the *)
(* record is stored and the identifier is in exactly the indexes of the    *)
(* record, or no record is stored and no index holds the identifier.       *)
(***************************************************************************)
C21_DeleteVsSave ==
    \A p, q \in Procs :
        (/\ p # q
         /\ Completed(p, "DELETE", 204)
         /\ Completed(q, "PUT", 200)
         /\ req[p].id = req[q].id
         /\ item[q].type # item[p].type \/ item[q].tags # item[p].tags)
            => \/ Stored(req[p].id) /\ IndexesOf(req[p].id) = IndexesOfRecord(req[p].id)
               \/ ~Stored(req[p].id) /\ IndexesOf(req[p].id) = {}

(***************************************************************************)
(* C22 as stated: an update whose batch starts when the batch of a DELETE  *)
(* of the same identifier has been executed does not bring the record      *)
(* back.  The DELETE has finished, so a record that the first command of   *)
(* the update's batch writes is stored when both requests are complete.    *)
(* DeleteExecuted: q is a DELETE of id whose batch is executed.            *)
(***************************************************************************)
DeleteExecuted(q, id) ==
    /\ pc[q] \in {"Exec", "done"}
    /\ req[q].method = "DELETE"
    /\ req[q].id = id
    /\ Len(pipe[q]) > 0
    /\ pos[q] = Len(pipe[q])

C22_UpdateKeepsDeleted ==
    [][\A p, q \in Procs :
          (/\ p # q
           /\ pc[p] = "Exec"
           /\ req[p].method = "PUT"
           /\ pos[p] = 0
           /\ pos'[p] = 1
           /\ DeleteExecuted(q, req[p].id))
              => ~Stored(req[p].id)' /\ IndexesOf(req[p].id)' = {}]_vars

(***************************************************************************)
(* C23 as stated: while the batch of an update whose previous and new tags *)
(* share a tag y is being executed (requests served one after the other),  *)
(* the identifier is in the index of y in every state.                     *)
(***************************************************************************)
C23_SharedTagStays ==
    \A p \in Procs : \A y \in Tags :
        (/\ pc[p] = "Exec"
         /\ req[p].method = "PUT"
         /\ Queued(p, "SREM", TagKey(y))
         /\ Queued(p, "SADD", TagKey(y)))
            => item[p].id \in sets[TagKey(y)]

(***************************************************************************)
(* C24 as stated: two DELETE requests of the same identifier that are both *)
(* complete have not both been answered 204.                               *)
(***************************************************************************)
C24_OneDeleteSucceeds ==
    \A p, q \in Procs :
        (/\ p # q
         /\ Completed(p, "DELETE", 204)
         /\ pc[q] = "done"
         /\ req[q].method = "DELETE"
         /\ req[q].id = req[p].id)
            => resp[q].status = 404

(***************************************************************************)
(* C25 as stated: every record in the response of a GET /items with a type *)
(* parameter has that type, also when the list completes while an update   *)
(* is being served.  Updating: q is in the handler or the batch of a PUT.  *)
(***************************************************************************)
Updating(q) ==
    /\ pc[q] \in {"handleUpdateItem", "SaveItem", "Exec"}
    /\ req[q].method = "PUT"

C25_ListedHaveType ==
    \A p, q \in Procs :
        (/\ pc[p] = "done"
         /\ Route(req[p]) = "handleListItems"
         /\ req[p].typeq # ""
         /\ resp[p].status = 200
         /\ Updating(q))
            => \A r \in resp[p].body.array : r.type = req[p].typeq

(***************************************************************************)
(* C26: for all strings used as identifier, type and tag, among them the   *)
(* same string used as type and as tag, the empty string and strings that  *)
(* contain the prefixes of the keys, the key of the record, the key of the *)
(* index of all items, the key of the type index and the key of the tag    *)
(* index are pairwise different; the keys of the records in the store are  *)
(* no keys of its indexes.                                                 *)
(***************************************************************************)
KeyStrings ==
    Ids \cup Types \cup Tags
        \cup {"", "s", ":", "s:type:a", "s:tag:x", "type:a", "tag:x", "items"}

KeysPairwiseDifferent ==
    /\ \A i, t \in KeyStrings :
          /\ ItemKey(i) # AllKey
          /\ ItemKey(i) # TypeKey(t)
          /\ ItemKey(i) # TagKey(t)
          /\ AllKey # TypeKey(t)
          /\ AllKey # TagKey(t)
    /\ \A t, g \in KeyStrings : TypeKey(t) # TagKey(g)

C26_KeysDistinct ==
    /\ KeysPairwiseDifferent
    /\ \A id \in Ids : Stored(id) => ItemKey(id) \notin DOMAIN sets
    /\ \A id \in Ids : \A k \in IndexesOf(id) : k \notin DOMAIN strs

\* a save has written the record and the indexes of its type and its tags,
\* and the record is still there
C26_Witness ==
    \E p \in Procs :
        /\ Completed(p, "POST", 201)
        /\ Len(item[p].tags) > 0
        /\ GetItem(item[p].id) = [item[p] EXCEPT !.data = Compact(@)]
        /\ IndexesOf(item[p].id) = IndexesOfRecord(item[p].id)
        /\ Cardinality(IndexesOf(item[p].id)) = 2 + Len(item[p].tags)

====
